---- MODULE Spec2Model ----
(***************************************************************************)
(* Model of the serve command of @ionic/cli-utils                          *)
(* (packages/@ionic/cli-utils/src/commands/serve.ts): the option           *)
(* normalizer cliOptionsToServeOptions and the serve() orchestration flow  *)
(* with its collaborators (hooks, project loader, backend adapters, the    *)
(* discovery Publisher, the logger and the browser launcher opn).          *)
(*                                                                         *)
(* JavaScript strings are TLA+ strings; a loosely typed JavaScript value   *)
(* is a record tagged with its typeof.                                     *)
(***************************************************************************)
EXTENDS Integers, Sequences, FiniteSets, TLC

VARIABLES
    pc,             \* position of the flow: the await it is suspended at
    options,        \* CommandLineOptions: raw option name -> raw value
    platform,       \* inputs[0]
    project,        \* result of env.project.load()
    serveOptions,   \* result of cliOptionsToServeOptions(options)
    serverDetails,  \* ServeDetails returned by the backend adapter
    adapterCalls,   \* backend adapters invoked, in order, with their options
    publisher,      \* the discovery Publisher, once constructed
    startCalls,     \* number of calls of service.start()
    errorEvents,    \* 'error' events delivered to the registered handler
    logged,         \* messages passed to env.log.ok
    opened,         \* calls of opn: url and app
    outcome         \* how the promise returned by serve() settled

vars == <<pc, options, platform, project, serveOptions, serverDetails,
          adapterCalls, publisher, startCalls, errorEvents, logged, opened,
          outcome>>

----------------------------------------------------------------------------
(* Bounds of the model *)

MaxRawOptions == 2
MaxAddresses == 2
MaxErrorEvents == 1

----------------------------------------------------------------------------
(* Constants imported from ../lib/serve *)

DEFAULT_SERVER_PORT == 8100
DEFAULT_LIVERELOAD_PORT == 35729
DEFAULT_DEV_LOGGER_PORT == 53703
BIND_ALL_ADDRESS == "0.0.0.0"
IONIC_LAB_URL == "/ionic-lab"

----------------------------------------------------------------------------
(* JavaScript values *)

Undefined == [t |-> "undefined"]
JsBool(b) == [t |-> "boolean", b |-> b]
JsStr(s) == [t |-> "string", s |-> s]
JsNum(n) == [t |-> "number", n |-> n]

TypeOf(v) == v.t

\* ToBoolean: undefined, false, "" and 0 are falsy
Truthy(v) ==
    CASE v.t = "undefined" -> FALSE
      [] v.t = "boolean" -> v.b
      [] v.t = "string" -> v.s # ""
      [] v.t = "number" -> v.n # 0
      [] OTHER -> TRUE

\* String(v)
JsString(v) ==
    CASE v.t = "undefined" -> "undefined"
      [] v.t = "boolean" -> (IF v.b THEN "true" ELSE "false")
      [] v.t = "string" -> v.s
      [] v.t = "number" -> ToString(v.n)

CharAt(s, i) == SubSeq(s, i, i)

Digits == "0123456789"
IsDigit(c) == \E d \in 1..10 : CharAt(Digits, d) = c
DigitVal(c) == (CHOOSE d \in 1..10 : CharAt(Digits, d) = c) - 1
IsSpace(c) == c \in {" ", "\t", "\n", "\r"}

RECURSIVE SkipSpaces(_, _)
SkipSpaces(s, i) ==
    IF i <= Len(s) /\ IsSpace(CharAt(s, i)) THEN SkipSpaces(s, i + 1) ELSE i

RECURSIVE DigitsEnd(_, _)
DigitsEnd(s, i) ==
    IF i <= Len(s) /\ IsDigit(CharAt(s, i)) THEN DigitsEnd(s, i + 1) ELSE i

RECURSIVE DigitsValue(_, _, _, _)
DigitsValue(s, i, j, acc) ==
    IF i >= j THEN acc
    ELSE DigitsValue(s, i + 1, j, acc * 10 + DigitVal(CharAt(s, i)))

\* parseInt(s, 10): leading white space, an optional sign, the longest run of
\* digits; NaN when there is no digit
ParseInt(s) ==
    LET i == SkipSpaces(s, 1)
        signed == i <= Len(s) /\ CharAt(s, i) \in {"+", "-"}
        neg == signed /\ CharAt(s, i) = "-"
        b == IF signed THEN i + 1 ELSE i
        e == DigitsEnd(s, b)
        n == DigitsValue(s, b, e, 0)
    IN  IF e = b THEN [nan |-> TRUE, n |-> 0]
        ELSE [nan |-> FALSE, n |-> IF neg THEN 0 - n ELSE n]

\* str2num(value, defaultValue) of @ionic/cli-framework/utils/string
str2num(value, defaultValue) ==
    CASE TypeOf(value) = "number" -> value.n
      [] TypeOf(value) = "string" ->
            (LET r == ParseInt(value.s) IN IF r.nan THEN defaultValue ELSE r.n)
      [] OTHER -> defaultValue

----------------------------------------------------------------------------
(* cliOptionsToServeOptions *)

OptionKeys ==
    {"address", "port", "livereload-port", "dev-logger-port", "consolelogs",
     "serverlogs", "livereload", "proxy", "lab", "open", "browser",
     "browseroption", "auth", "env", "devapp", "externalAddressRequired",
     "iscordovaserve"}

NoOptions == [k \in OptionKeys |-> Undefined]

\* options[x] ? true : false
DefaultFalseFlag_TypeofBoolean(v) ==
    IF TypeOf(v) = "boolean" THEN v.b ELSE FALSE
DefaultFalseFlag(v) == IF Truthy(v) THEN TRUE ELSE FALSE

\* typeof options[x] === 'boolean' ? Boolean(options[x]) : true
DefaultTrueFlag(v) == IF TypeOf(v) = "boolean" THEN v.b ELSE TRUE

\* typeof options['devapp'] === 'undefined' || options['devapp'] ? true : false
DevAppFlag(v) == IF TypeOf(v) = "undefined" \/ Truthy(v) THEN TRUE ELSE FALSE

\* typeof options['iscordovaserve'] === 'boolean' ? Boolean(...) : false
CordovaFlag(v) == IF TypeOf(v) = "boolean" THEN v.b ELSE FALSE

\* options[x] ? String(options[x]) : undefined
OptionalString(v) == IF Truthy(v) THEN JsStr(JsString(v)) ELSE Undefined

cliOptionsToServeOptions(o) ==
    [ address |-> IF Truthy(o["address"]) THEN JsString(o["address"])
                  ELSE BIND_ALL_ADDRESS,
      port |-> str2num(o["port"], DEFAULT_SERVER_PORT),
      livereloadPort |-> str2num(o["livereload-port"], DEFAULT_LIVERELOAD_PORT),
      notificationPort |-> str2num(o["dev-logger-port"], DEFAULT_DEV_LOGGER_PORT),
      consolelogs |-> DefaultFalseFlag(o["consolelogs"]),
      serverlogs |-> DefaultFalseFlag(o["serverlogs"]),
      livereload |-> DefaultTrueFlag(o["livereload"]),
      proxy |-> DefaultTrueFlag(o["proxy"]),
      lab |-> DefaultFalseFlag(o["lab"]),
      open |-> DefaultFalseFlag(o["open"]),
      browser |-> OptionalString(o["browser"]),
      browserOption |-> OptionalString(o["browseroption"]),
      basicAuth |-> IF Truthy(o["auth"])
                    THEN [t |-> "tuple", user |-> "ionic", pass |-> JsString(o["auth"])]
                    ELSE Undefined,
      env |-> OptionalString(o["env"]),
      devapp |-> DevAppFlag(o["devapp"]),
      externalAddressRequired |-> DefaultFalseFlag(o["externalAddressRequired"]),
      iscordovaserve |-> CordovaFlag(o["iscordovaserve"]) ]

----------------------------------------------------------------------------
(* The normalizer on its own: raw option mappings built one parsed argument  *)
(* at a time, then normalized.                                               *)

RawValues ==
    {JsBool(TRUE), JsBool(FALSE), JsStr(""), JsStr("abc"), JsStr("3000"),
     JsStr("-5"), JsStr("70000"), JsNum(3000)}

SetKeys(o) == {k \in OptionKeys : o[k] # Undefined}

Idle ==
    /\ platform = Undefined
    /\ project = Undefined
    /\ serverDetails = Undefined
    /\ adapterCalls = <<>>
    /\ publisher = Undefined
    /\ startCalls = 0
    /\ errorEvents = 0
    /\ logged = <<>>
    /\ opened = <<>>
    /\ outcome = "pending"

InitNorm ==
    /\ pc = "args"
    /\ options = NoOptions
    /\ serveOptions = Undefined
    /\ Idle

\* the command line parser adds one option to the mapping
ParseArg(k, v) ==
    /\ pc = "args"
    /\ options[k] = Undefined
    /\ Cardinality(SetKeys(options)) < MaxRawOptions
    /\ options' = [options EXCEPT ![k] = v]
    /\ UNCHANGED <<pc, platform, project, serveOptions, serverDetails,
                   adapterCalls, publisher, startCalls, errorEvents, logged,
                   opened, outcome>>

Normalize ==
    /\ pc = "args"
    /\ serveOptions' = cliOptionsToServeOptions(options)
    /\ pc' = "normalized"
    /\ UNCHANGED <<options, platform, project, serverDetails, adapterCalls,
                   publisher, startCalls, errorEvents, logged, opened, outcome>>

NextNorm ==
    \/ \E k \in OptionKeys, v \in RawValues : ParseArg(k, v)
    \/ Normalize

NormSpec == InitNorm /\ [][NextNorm]_vars

----------------------------------------------------------------------------
(* serve(env, inputs, options)                                               *)
(*                                                                           *)
(* pc names the await the flow is suspended at: "hooks" (env.hooks.fire),     *)
(* "load" (env.project.load), "backend" (the adapter's serve), "start"        *)
(* (service.start), "opn" (import of opn), or "done" once the promise         *)
(* returned by serve() has settled.                                           *)

ProjectTypes == {"ionic1", "ionic-angular", "custom", "ionic-core-angular"}
ProjectNames == {"myApp"}
Addresses == {"192.168.1.5", "10.0.0.2"}
Platforms == {Undefined, JsStr(""), JsStr("ios")}

RECURSIVE SeqsUpTo(_, _)
SeqsUpTo(S, n) ==
    IF n = 0 THEN {<<>>}
    ELSE LET shorter == SeqsUpTo(S, n - 1)
         IN  shorter \cup {Append(q, x) : q \in shorter, x \in S}

\* raw options of the sessions explored
ServeRawOptions ==
    { [NoOptions EXCEPT !["port"] = p, !["open"] = op, !["lab"] = lb,
                        !["browseroption"] = bo, !["auth"] = au,
                        !["devapp"] = da, !["iscordovaserve"] = ic] :
        p \in {Undefined, JsStr("3000")},
        op \in {Undefined, JsBool(TRUE)},
        lb \in {Undefined, JsBool(TRUE)},
        bo \in {Undefined, JsStr("--incognito")},
        au \in {Undefined, JsStr("secret")},
        da \in {Undefined, JsBool(FALSE)},
        ic \in {Undefined, JsBool(TRUE), JsStr("abc")} }

\* what a backend may report: the requested port or the next one when the
\* requested one is taken, and any list of external addresses
PossibleDetails ==
    IF serveOptions = Undefined THEN {}
    ELSE { [port |-> p, externalAddresses |-> a] :
             p \in {serveOptions.port, serveOptions.port + 1},
             a \in SeqsUpTo(Addresses, MaxAddresses) }

Init ==
    /\ pc = "hooks"
    /\ options \in ServeRawOptions
    /\ platform \in Platforms
    /\ project = Undefined
    /\ serveOptions = Undefined
    /\ serverDetails = Undefined
    /\ adapterCalls = <<>>
    /\ publisher = Undefined
    /\ startCalls = 0
    /\ errorEvents = 0
    /\ logged = <<>>
    /\ opened = <<>>
    /\ outcome = "pending"

\* chalk.bold
Bold(s) == "[1m" \o s \o "[22m"

RECURSIVE Join(_, _)
Join(parts, sep) ==
    IF Len(parts) = 0 THEN ""
    ELSE IF Len(parts) = 1 THEN parts[1]
    ELSE parts[1] \o sep \o Join(Tail(parts), sep)

\* the adapter chosen for a project type, "none" for the final else branch
AdapterFor_Fallback(type) ==
    IF type = "ionic-angular" THEN "ionic-angular" ELSE "ionic1"
AdapterFor(type) ==
    IF type = "ionic1" THEN "ionic1"
    ELSE IF type = "ionic-angular" THEN "ionic-angular"
    ELSE "none"

\* the options handed to the adapter
AdapterOptions(adapter) ==
    IF adapter = "ionic1" THEN serveOptions
    ELSE serveOptions @@
         [platform |-> platform,
          target |-> IF serveOptions.iscordovaserve THEN JsStr("cordova")
                     ELSE Undefined]

DevAppActive == ~serveOptions.iscordovaserve /\ serveOptions.devapp
DevAppServiceName == project.name \o "@" \o ToString(serveOptions.port)

\* new Publisher('devapp', devAppServiceName, serveOptions.port), its path and
\* its 'error' handler
NewPublisher ==
    [namespace |-> "devapp", name |-> DevAppServiceName,
     port |-> serveOptions.port, path |-> "/?devapp=true",
     errorHandlers |-> 1, state |-> "starting"]

LocalAddress(details) == "http://localhost:" \o ToString(details.port)
FmtExternalAddress_RequestedPort(details, address) ==
    "http://" \o address \o ":" \o ToString(serveOptions.port)
FmtExternalAddress(details, address) ==
    "http://" \o address \o ":" \o ToString(details.port)

\* the text passed to env.log.ok
ReportText(details) ==
    "Development server running!\n"
    \o "Local: " \o Bold(LocalAddress(details)) \o "\n"
    \o (IF Len(details.externalAddresses) > 0
        THEN "External: "
             \o Join([i \in 1..Len(details.externalAddresses) |->
                        Bold(FmtExternalAddress(details, details.externalAddresses[i]))],
                     ", ")
             \o "\n"
        ELSE "")
    \o (IF Truthy(serveOptions.basicAuth)
        THEN "Basic Auth: " \o Bold(serveOptions.basicAuth.user) \o " / "
             \o Bold(serveOptions.basicAuth.pass)
        ELSE "")

ShouldOpen_AnyType == serveOptions.open
ShouldOpen == project.type # "ionic-angular" /\ serveOptions.open

OpenOptions_PlatformFirst(details) ==
    <<LocalAddress(details)>>
    \o (IF Truthy(platform) THEN <<"?ionicplatform=", platform.s>> ELSE <<>>)
    \o (IF serveOptions.lab THEN <<IONIC_LAB_URL>> ELSE <<>>)
    \o (IF Truthy(serveOptions.browserOption)
        THEN <<serveOptions.browserOption.s>> ELSE <<>>)
OpenOptions(details) ==
    <<LocalAddress(details)>>
    \o (IF serveOptions.lab THEN <<IONIC_LAB_URL>> ELSE <<>>)
    \o (IF Truthy(serveOptions.browserOption)
        THEN <<serveOptions.browserOption.s>> ELSE <<>>)
    \o (IF Truthy(platform) THEN <<"?ionicplatform=", platform.s>> ELSE <<>>)

\* the hooks resolved: the options are normalized and the project load begins
HooksFired ==
    /\ pc = "hooks"
    /\ serveOptions' = cliOptionsToServeOptions(options)
    /\ pc' = "load"
    /\ UNCHANGED <<options, platform, project, serverDetails, adapterCalls,
                   publisher, startCalls, errorEvents, logged, opened, outcome>>

HooksFailed ==
    /\ pc = "hooks"
    /\ pc' = "done"
    /\ outcome' = "rejected:hook"
    /\ UNCHANGED <<options, platform, project, serveOptions, serverDetails,
                   adapterCalls, publisher, startCalls, errorEvents, logged,
                   opened>>

\* the project loaded: dispatch on its type
ProjectLoaded(type, name) ==
    /\ pc = "load"
    /\ project' = [type |-> type, name |-> name]
    /\ IF AdapterFor(type) # "none"
       THEN /\ adapterCalls' =
                 Append(adapterCalls,
                        [adapter |-> AdapterFor(type),
                         options |-> AdapterOptions(AdapterFor(type))])
            /\ pc' = "backend"
            /\ outcome' = outcome
       ELSE /\ adapterCalls' = adapterCalls
            /\ pc' = "done"
            /\ outcome' = "rejected:FatalException"
    /\ UNCHANGED <<options, platform, serveOptions, serverDetails, publisher,
                   startCalls, errorEvents, logged, opened>>

ProjectLoadFailed ==
    /\ pc = "load"
    /\ pc' = "done"
    /\ outcome' = "rejected:load"
    /\ UNCHANGED <<options, platform, project, serveOptions, serverDetails,
                   adapterCalls, publisher, startCalls, errorEvents, logged,
                   opened>>

\* env.log.ok(...), then either the import of opn or the return
ReportAndReturn(details) ==
    /\ logged' = Append(logged, ReportText(details))
    /\ IF ShouldOpen
       THEN pc' = "opn" /\ outcome' = outcome
       ELSE pc' = "done" /\ outcome' = "returned"

\* the adapter returned ServeDetails and no discovery is wanted
BackendReturned(details) ==
    /\ pc = "backend"
    /\ ~DevAppActive
    /\ serverDetails' = details
    /\ ReportAndReturn(details)
    /\ UNCHANGED <<options, platform, project, serveOptions, adapterCalls,
                   publisher, startCalls, errorEvents, opened>>

\* the adapter returned ServeDetails, the Publisher is constructed and its
\* start() called
BackendReturnedDevApp(details) ==
    /\ pc = "backend"
    /\ DevAppActive
    /\ serverDetails' = details
    /\ publisher' = NewPublisher
    /\ startCalls' = startCalls + 1
    /\ pc' = "start"
    /\ UNCHANGED <<options, platform, project, serveOptions, adapterCalls,
                   errorEvents, logged, opened, outcome>>

\* the adapter returned ServeDetails and the construction of the Publisher
\* threw: nothing catches it
BackendReturnedPublisherThrew(details) ==
    /\ pc = "backend"
    /\ DevAppActive
    /\ serverDetails' = details
    /\ pc' = "done"
    /\ outcome' = "rejected:Publisher"
    /\ UNCHANGED <<options, platform, project, serveOptions, adapterCalls,
                   publisher, startCalls, errorEvents, logged, opened>>

BackendFailed ==
    /\ pc = "backend"
    /\ pc' = "done"
    /\ outcome' = "rejected:backend"
    /\ UNCHANGED <<options, platform, project, serveOptions, serverDetails,
                   adapterCalls, publisher, startCalls, errorEvents, logged,
                   opened>>

\* service.start() resolved
StartResolved ==
    /\ pc = "start"
    /\ publisher' = [publisher EXCEPT !.state = "published"]
    /\ ReportAndReturn(serverDetails)
    /\ UNCHANGED <<options, platform, project, serveOptions, serverDetails,
                   adapterCalls, startCalls, errorEvents, opened>>

\* service.start() rejected: the catch block discards the error
StartRejected ==
    /\ pc = "start"
    /\ publisher' = [publisher EXCEPT !.state = "failed"]
    /\ ReportAndReturn(serverDetails)
    /\ UNCHANGED <<options, platform, project, serveOptions, serverDetails,
                   adapterCalls, startCalls, errorEvents, opened>>

\* the Publisher emits 'error': the registered handler does nothing
ErrorEvent ==
    /\ publisher # Undefined
    /\ publisher.errorHandlers > 0
    /\ errorEvents < MaxErrorEvents
    /\ errorEvents' = errorEvents + 1
    /\ UNCHANGED <<pc, options, platform, project, serveOptions, serverDetails,
                   adapterCalls, publisher, startCalls, logged, opened, outcome>>

\* opn imported and called
OpnCalled ==
    /\ pc = "opn"
    /\ opened' = Append(opened,
                        [url |-> Join(OpenOptions(serverDetails), ""),
                         app |-> serveOptions.browser, wait |-> FALSE])
    /\ pc' = "done"
    /\ outcome' = "returned"
    /\ UNCHANGED <<options, platform, project, serveOptions, serverDetails,
                   adapterCalls, publisher, startCalls, errorEvents, logged>>

\* the steps that do not depend on the discovery service
Flow ==
    \/ HooksFired
    \/ \E type \in ProjectTypes, name \in ProjectNames : ProjectLoaded(type, name)
    \/ OpnCalled

Next ==
    \/ HooksFired
    \/ HooksFailed
    \/ \E type \in ProjectTypes, name \in ProjectNames : ProjectLoaded(type, name)
    \/ ProjectLoadFailed
    \/ \E details \in PossibleDetails : BackendReturned(details)
    \/ \E details \in PossibleDetails : BackendReturnedDevApp(details)
    \/ \E details \in PossibleDetails : BackendReturnedPublisherThrew(details)
    \/ BackendFailed
    \/ StartResolved
    \/ StartRejected
    \/ ErrorEvent
    \/ OpnCalled

Spec == Init /\ [][Next]_vars

\* the continuation of a settled promise runs; nothing makes the promise of
\* service.start() settle
FairSpec == Spec /\ WF_vars(Flow)

----------------------------------------------------------------------------
(* Reading a report back *)

StartsWith(s, prefix) ==
    Len(s) >= Len(prefix) /\ SubSeq(s, 1, Len(prefix)) = prefix

\* first position of sub in s, 0 when there is none
IndexOf(s, sub) ==
    LET at == {i \in 1..(Len(s) - Len(sub) + 1) :
                 SubSeq(s, i, i + Len(sub) - 1) = sub}
    IN  IF at = {} THEN 0 ELSE CHOOSE i \in at : \A j \in at : i <= j

RECURSIVE Split(_, _)
Split(s, sep) ==
    LET i == IndexOf(s, sep)
    IN  IF i = 0 THEN <<s>>
        ELSE <<SubSeq(s, 1, i - 1)>> \o Split(SubSeq(s, i + Len(sep), Len(s)), sep)

Unbold(s) ==
    IF StartsWith(s, "[1m") /\ Len(s) >= 7 /\ SubSeq(s, Len(s) - 3, Len(s)) = "[22m"
    THEN SubSeq(s, 4, Len(s) - 4)
    ELSE "not bold"

ReportLines(text) == Split(text, "\n")
ExternalLines(text) ==
    SelectSeq(ReportLines(text), LAMBDA l : StartsWith(l, "External: "))
ExternalEntries(line) ==
    LET items == Split(SubSeq(line, Len("External: ") + 1, Len(line)), ", ")
    IN  [i \in 1..Len(items) |-> Unbold(items[i])]

----------------------------------------------------------------------------
(* Claims *)

Served == serverDetails # Undefined
Reported == Len(logged) > 0
UnsupportedType ==
    project # Undefined /\ project.type \notin {"ionic1", "ionic-angular"}

\* C1: a session whose loaded project type is neither ionic1 nor
\* ionic-angular ends with the fatal configuration error; no adapter is
\* invoked, no Publisher is constructed or started, nothing is reported and
\* opn is not called.
C1_UnsupportedTypeIsFatal ==
    UnsupportedType =>
        /\ pc = "done"
        /\ outcome = "rejected:FatalException"
        /\ adapterCalls = <<>>
        /\ serverDetails = Undefined
        /\ publisher = Undefined
        /\ startCalls = 0
        /\ logged = <<>>
        /\ opened = <<>>

C1_Witness ==
    /\ project # Undefined
    /\ project.type = "custom"
    /\ outcome = "rejected:FatalException"

C3_DiscoveryFailureSwallowed ==
    (Served /\ pc = "done") =>
        /\ outcome = "returned"
        /\ Len(logged) = 1

\* C4: once service.start() has been called the report eventually happens,
\* also when start() never completes.
C4_ReportNotDelayed == (pc = "start") ~> Reported

\* C5: opn is called at most once, and only when open is true and the project
\* type is not ionic-angular.
C5_OpenAtMostOnce ==
    /\ Len(opened) <= 1
    /\ Len(opened) > 0 => (serveOptions.open /\ project.type # "ionic-angular")

C5_Witness ==
    /\ pc = "done"
    /\ Len(opened) = 1
    /\ project.type = "ionic1"

\* C6: the url passed to opn is the local URL of the bound port, then the lab
\* URL iff lab, then browserOption iff set, then ?ionicplatform= and the
\* platform iff a platform was given (a non-empty inputs[0]), with nothing in
\* between.
C6_OpenedUrl ==
    \A i \in 1..Len(opened) :
        opened[i].url =
            "http://localhost:" \o ToString(serverDetails.port)
            \o (IF serveOptions.lab THEN "/ionic-lab" ELSE "")
            \o (IF serveOptions.browserOption # Undefined
                THEN serveOptions.browserOption.s ELSE "")
            \o (IF platform \notin {Undefined, JsStr("")}
                THEN "?ionicplatform=" \o platform.s ELSE "")

C6_Witness ==
    /\ Len(opened) = 1
    /\ serveOptions.lab
    /\ serveOptions.browserOption = JsStr("--incognito")
    /\ platform = JsStr("ios")
    /\ opened[1].url = "http://localhost:3001/ionic-lab--incognito?ionicplatform=ios"

\* C7: a report has the Local line of the bound port; it has one External line
\* iff externalAddresses is not empty, and its entries are
\* http://{address}:{port} for the addresses in order, one entry per address,
\* with the port of the ServeDetails.
C7_ReportAddresses ==
    \A r \in 1..Len(logged) :
        LET lines == ReportLines(logged[r])
            ext == ExternalLines(logged[r])
            addrs == serverDetails.externalAddresses
        IN  /\ Len(lines) >= 2
            /\ lines[2] = "Local: " \o Bold("http://localhost:" \o ToString(serverDetails.port))
            /\ Len(ext) = (IF Len(addrs) > 0 THEN 1 ELSE 0)
            /\ Len(ext) = 1 =>
                 LET entries == ExternalEntries(ext[1])
                 IN  /\ Len(entries) = Len(addrs)
                     /\ \A i \in 1..Len(addrs) :
                          entries[i] = "http://" \o addrs[i] \o ":"
                                       \o ToString(serverDetails.port)

C7_Witness ==
    /\ Reported
    /\ serverDetails.externalAddresses = <<"10.0.0.2", "192.168.1.5">>
    /\ serverDetails.port # serveOptions.port
    /\ ExternalEntries(ExternalLines(logged[1])[1])
         = <<"http://10.0.0.2:3001", "http://192.168.1.5:3001">>

IsValidPort(n) == n \in 0..65535

Unparsable(v) ==
    \/ TypeOf(v) \in {"undefined", "boolean"}
    \/ TypeOf(v) = "string" /\ ParseInt(v.s).nan

\* C8: the normalized port, livereloadPort and notificationPort are valid
\* ports whatever the raw values are, and the named default when the raw
\* value is absent or does not parse.
C8_PortsAlwaysValid ==
    pc = "normalized" =>
        /\ IsValidPort(serveOptions.port)
        /\ IsValidPort(serveOptions.livereloadPort)
        /\ IsValidPort(serveOptions.notificationPort)
        /\ Unparsable(options["port"]) => serveOptions.port = 8100
        /\ Unparsable(options["livereload-port"]) => serveOptions.livereloadPort = 35729
        /\ Unparsable(options["dev-logger-port"]) => serveOptions.notificationPort = 53703

\* C9 as stated: the six default-false flags all normalize to the truthiness
\* of their raw value.
C9_SixFlagsSameRule ==
    pc = "normalized" =>
        /\ serveOptions.consolelogs = Truthy(options["consolelogs"])
        /\ serveOptions.serverlogs = Truthy(options["serverlogs"])
        /\ serveOptions.lab = Truthy(options["lab"])
        /\ serveOptions.open = Truthy(options["open"])
        /\ serveOptions.externalAddressRequired = Truthy(options["externalAddressRequired"])
        /\ serveOptions.iscordovaserve = Truthy(options["iscordovaserve"])

\* C9 amended: consolelogs, serverlogs, lab, open and externalAddressRequired
\* normalize to the truthiness of their raw value; iscordovaserve is true only
\* for the raw boolean true, and false for every other raw value, truthy
\* strings and numbers included.
C9_FiveFlagsTruthyCordovaBoolean ==
    pc = "normalized" =>
        /\ serveOptions.consolelogs = Truthy(options["consolelogs"])
        /\ serveOptions.serverlogs = Truthy(options["serverlogs"])
        /\ serveOptions.lab = Truthy(options["lab"])
        /\ serveOptions.open = Truthy(options["open"])
        /\ serveOptions.externalAddressRequired = Truthy(options["externalAddressRequired"])
        /\ serveOptions.iscordovaserve = (options["iscordovaserve"] = JsBool(TRUE))
        /\ \A f \in {"consolelogs", "serverlogs", "lab", "open",
                     "externalAddressRequired", "iscordovaserve"} :
             serveOptions[f] \in BOOLEAN

C9_Witness ==
    /\ pc = "normalized"
    /\ options["iscordovaserve"] = JsStr("abc")
    /\ options["lab"] = JsStr("abc")
    /\ serveOptions.lab
    /\ ~serveOptions.iscordovaserve

\* C10: the port given to the Publisher, and the port in its name
\* {projectName}@{port}, is the port the adapter reports as bound.
C10_AdvertisedPortIsBoundPort ==
    publisher # Undefined =>
        /\ publisher.port = serverDetails.port
        /\ publisher.name = project.name \o "@" \o ToString(serverDetails.port)

====
